---- MODULE Spec2Model ----
(***************************************************************************)
(* Model of the sampling core of sd3_impls.py: the guidance wrappers       *)
(* (CFGDenoiser, SkipLayerCFGDenoiser), the denoiser wrapper               *)
(* (BaseModel.apply_model), the samplers (sample_euler, sample_dpmpp_2m)   *)
(* and the latent format (SD3LatentFormat).                                *)
(*                                                                         *)
(* Tensors are modelled by one element.  A number is a pair <<n, d>>: a    *)
(* reduced fraction n/d with d > 0, or one of the IEEE specials            *)
(* <<1,0>> (+inf), <<-1,0>> (-inf), <<0,0>> (nan), which is what torch     *)
(* produces instead of raising on a division by zero.  Arithmetic is exact *)
(* (no rounding); the sign of zero is not modelled.                        *)
(***************************************************************************)
EXTENDS Integers, Sequences, FiniteSets, TLC

VARIABLES
    slg, skip_start, skip_end, steps, step,  \* fields of SkipLayerCFGDenoiser
    call,          \* arguments, locals and result of the latest forward call
    pc,            \* position of the sampler: "idle", "stepping", "done"
    sampler,       \* "euler" or "dpmpp_2m"
    model,         \* the guided-denoise callable: "cfg" or "slg"
    extra_args,    \* cond_scale and keyword arguments passed on to model
    sigmas, i, x, old_denoised,   \* arguments and locals of the sampler
    branch, r,     \* branch taken by the latest sample_dpmpp_2m step, local r
    raw_latent,    \* a latent as the VAE produced it
    latent, stage, \* the latent being converted and the space it is in
    shift,         \* ModelSamplingDiscreteFlow.shift
    sched          \* a noise level taken through timestep() and sigma()

wrapperVars == <<slg, skip_start, skip_end, steps, step>>
samplerVars == <<pc, sampler, model, extra_args, sigmas, i, x, old_denoised,
                 branch, r>>
latentVars == <<raw_latent, latent, stage>>
scheduleVars == <<shift, sched>>
vars == <<slg, skip_start, skip_end, steps, step, call,
          pc, sampler, model, extra_args, sigmas, i, x, old_denoised,
          branch, r, raw_latent, latent, stage, shift, sched>>

-----------------------------------------------------------------------------
(* Numbers *)

\* the pairs that represent numbers.  The arithmetic below is written as
\* functions so that an argument is evaluated once, where it is applied.
Num == Int \X Int

Abs(n) == IF n < 0 THEN -n ELSE n

Sign(n) == IF n < 0 THEN -1 ELSE IF n > 0 THEN 1 ELSE 0

GCD[a \in Nat, b \in Nat] == IF b = 0 THEN a ELSE GCD[b, a % b]

Rat[n \in Int, d \in Int] ==
    IF d = 0 THEN <<Sign(n), 0>>
    ELSE LET g == GCD[Abs(n), Abs(d)]
         IN  <<(Sign(d) * n) \div g, Abs(d) \div g>>

Zero == <<0, 1>>
One == <<1, 1>>
Inf == <<1, 0>>
NaN == <<0, 0>>
None == <<>>

Neg[a \in Num] == <<-a[1], a[2]>>

Add[a \in Num, b \in Num] ==
    IF a = NaN \/ b = NaN THEN NaN
    ELSE IF a[2] = 0 /\ b[2] = 0 THEN (IF a = b THEN a ELSE NaN)
    ELSE IF a[2] = 0 THEN a
    ELSE IF b[2] = 0 THEN b
    ELSE LET g == GCD[a[2], b[2]]
         IN  Rat[a[1] * (b[2] \div g) + b[1] * (a[2] \div g), (a[2] \div g) * b[2]]

Sub[a \in Num, b \in Num] == Add[a, Neg[b]]

Mul[a \in Num, b \in Num] ==
    IF a[2] = 0 \/ b[2] = 0 THEN <<Sign(a[1]) * Sign(b[1]), 0>>
    ELSE LET g1 == GCD[Abs(a[1]), b[2]]
             g2 == GCD[Abs(b[1]), a[2]]
         IN  Rat[(a[1] \div g1) * (b[1] \div g2), (a[2] \div g2) * (b[2] \div g1)]

Div[a \in Num, b \in Num] ==
    IF a = NaN \/ b = NaN THEN NaN
    ELSE IF b[2] = 0 THEN (IF a[2] = 0 THEN NaN ELSE Zero)
    ELSE IF b[1] = 0 THEN <<Sign(a[1]), 0>>
    ELSE IF a[2] = 0 THEN <<Sign(a[1]) * Sign(b[1]), 0>>
    ELSE Mul[a, <<Sign(b[1]) * b[2], Abs(b[1])>>]

\* a < b and a > b as Python/IEEE compare them (false when either is nan)
Less(a, b) ==
    /\ a # NaN /\ b # NaN /\ a # b
    /\ IF a[2] = 0 THEN a[1] < 0
       ELSE IF b[2] = 0 THEN b[1] > 0
       ELSE a[1] * b[2] < b[1] * a[2]

Greater(a, b) == Less(b, a)

-----------------------------------------------------------------------------
(* Bounds and input sets *)

FracBits == 1
MaxSteps == 3
MaxCalls == 4

\* skip_start / skip_end: the fractions k / 2^FracBits of [0, 1]
Fractions == {Rat[k, 2 ^ FracBits] : k \in 0 .. 2 ^ FracBits}
SlgScales == {<<-1, 1>>, Zero, <<2, 1>>}
RawVals == {Zero, One}
CondScales == {One, <<5, 2>>, <<4, 1>>}
Kwargs == {"none", "controlnet_cond"}
XArgs == {One}
SigmaArgs == {<<1, 2>>}

-----------------------------------------------------------------------------
(* ModelSamplingDiscreteFlow and BaseModel.apply_model *)

timestep(sigma) == Mul[sigma, <<1000, 1>>]

calculate_denoised(sigma, model_output, model_input) ==
    Sub[model_input, Mul[model_output, sigma]]

\* One evaluation of the denoiser on a batch.  model_output is what the
\* backbone (self.diffusion_model, an external collaborator) returned for
\* the batch; the result records the arguments of the evaluation, whether
\* the control pathway (self.control_model) produced hidden states for the
\* backbone, and the denoised batch.
apply_model(xs, sigma, c_crossattn, skip_layers, controlnet_cond, model_output) ==
    [x |-> xs,
     timestep |-> [k \in 1 .. Len(xs) |-> timestep(sigma[k])],
     c_crossattn |-> c_crossattn,
     skip_layers |-> skip_layers,
     controlnet_cond |-> controlnet_cond,
     controlnet_hidden_states |->
         IF controlnet_cond = "none" THEN "none" ELSE "control_model",
     out |-> [k \in 1 .. Len(xs) |->
                 calculate_denoised(sigma[k], model_output[k], xs[k])]]

-----------------------------------------------------------------------------
(* CFGDenoiser *)

\* line 217: the guidance scale is the literal 2.5, the cond_scale argument
\* is not read
CFGScaled(pos_out, neg_out, cond_scale) ==
    Add[neg_out, Mul[Sub[pos_out, neg_out], <<5, 2>>]]

CFGDenoiser_forward(xv, ts, cond_scale, kwargs, model_output) ==
    LET batched == apply_model(<<xv, xv>>, <<ts, ts>>, <<"cond", "uncond">>,
                               "default", kwargs, model_output)
        pos_out == batched.out[1]
        neg_out == batched.out[2]
    IN  [wrapper |-> "cfg", x |-> xv, timestep |-> ts,
         cond_scale |-> cond_scale, kwargs |-> kwargs,
         evals |-> <<batched>>,
         pos_out |-> pos_out, neg_out |-> neg_out, skip_layer_out |-> None,
         entry_step |-> step, ret |-> CFGScaled(pos_out, neg_out, cond_scale)]

-----------------------------------------------------------------------------
(* SkipLayerCFGDenoiser *)

SLGScaled(pos_out, neg_out, cond_scale) ==
    Add[neg_out, Mul[Sub[pos_out, neg_out], cond_scale]]

\* mutation of SkipBranch: the lower bound of the window is inclusive
SkipBranch_LowerInclusive(slgv, st, start, end, total) ==
    /\ Greater(slgv, Zero)
    /\ ~Less(<<st, 1>>, Mul[start, <<total, 1>>])
    /\ Less(<<st, 1>>, Mul[end, <<total, 1>>])

\* mutation of SkipBranch: the window is closed at both ends
SkipBranch_Closed(slgv, st, start, end, total) ==
    /\ Greater(slgv, Zero)
    /\ ~Less(<<st, 1>>, Mul[start, <<total, 1>>])
    /\ ~Greater(<<st, 1>>, Mul[end, <<total, 1>>])

\* the condition of lines 255-259
SkipBranch(slgv, st, start, end, total) ==
    /\ Greater(slgv, Zero)
    /\ Greater(<<st, 1>>, Mul[start, <<total, 1>>])
    /\ Less(<<st, 1>>, Mul[end, <<total, 1>>])

SkipScaled(scaled, pos_out, skip_layer_out, slgv) ==
    Add[scaled, Mul[Sub[pos_out, skip_layer_out], slgv]]

\* mutation of StepIncrement: the counter is not advanced
StepIncrement_Missing(st) == st

\* line 269
StepIncrement(st) == st + 1

\* mutation of SkipKwargs: the caller's keyword arguments are forwarded
SkipKwargs_Forwarded(kwargs) == kwargs

\* lines 260-266: the keyword arguments of the skip-layer evaluation; the
\* caller's **kwargs are not among them, so controlnet_cond is its default
SkipKwargs(kwargs) == "none"

SkipLayerCFGDenoiser_forward(xv, ts, cond_scale, kwargs, model_output, skip_output) ==
    LET batched == apply_model(<<xv, xv>>, <<ts, ts>>, <<"cond", "uncond">>,
                               "default", kwargs, model_output)
        pos_out == batched.out[1]
        neg_out == batched.out[2]
        scaled == SLGScaled(pos_out, neg_out, cond_scale)
        skipped == apply_model(<<xv>>, <<ts>>, <<"cond">>,
                               "self.skip_layers", SkipKwargs(kwargs),
                               <<skip_output>>)
        skip_layer_out == skipped.out[1]
    IN  IF SkipBranch(slg, step, skip_start, skip_end, steps)
        THEN [wrapper |-> "slg", x |-> xv, timestep |-> ts,
              cond_scale |-> cond_scale, kwargs |-> kwargs,
              evals |-> <<batched, skipped>>,
              pos_out |-> pos_out, neg_out |-> neg_out,
              skip_layer_out |-> skip_layer_out,
              entry_step |-> step,
              ret |-> SkipScaled(scaled, pos_out, skip_layer_out, slg)]
        ELSE [wrapper |-> "slg", x |-> xv, timestep |-> ts,
              cond_scale |-> cond_scale, kwargs |-> kwargs,
              evals |-> <<batched>>,
              pos_out |-> pos_out, neg_out |-> neg_out,
              skip_layer_out |-> None,
              entry_step |-> step, ret |-> scaled]

\* the outputs the backbone may produce for the skip-layer evaluation of a
\* call; a single placeholder when that evaluation does not run
SkipOutputs == IF SkipBranch(slg, step, skip_start, skip_end, steps)
               THEN RawVals ELSE {Zero}

-----------------------------------------------------------------------------
(* Direct calls of the two wrappers *)

InitWrapper ==
    /\ slg \in SlgScales
    /\ skip_start \in Fractions
    /\ skip_end \in Fractions
    /\ steps \in 1 .. MaxSteps
    /\ step = 0
    /\ call = [wrapper |-> "none"]

IdleSampler ==
    /\ pc = "idle"
    /\ sampler = "none"
    /\ model = "none"
    /\ extra_args = None
    /\ sigmas = <<>>
    /\ i = 0
    /\ x = None
    /\ old_denoised = None
    /\ branch = "none"
    /\ r = None

IdleLatent ==
    /\ raw_latent = None
    /\ latent = None
    /\ stage = "none"

IdleSchedule ==
    /\ shift = One
    /\ sched = [stage |-> "none"]

Init == InitWrapper /\ IdleSampler /\ IdleLatent /\ IdleSchedule

CallCFG ==
    \E xv \in XArgs, ts \in SigmaArgs, cs \in CondScales, kw \in Kwargs,
       rp \in RawVals, rn \in RawVals :
        /\ call' = CFGDenoiser_forward(xv, ts, cs, kw, <<rp, rn>>)
        /\ UNCHANGED <<wrapperVars, samplerVars, latentVars, scheduleVars>>

CallSLG ==
    /\ step < MaxCalls
    /\ \E xv \in XArgs, ts \in SigmaArgs, cs \in CondScales, kw \in Kwargs,
          rp \in RawVals, rn \in RawVals, rs \in SkipOutputs :
        /\ call' = SkipLayerCFGDenoiser_forward(xv, ts, cs, kw, <<rp, rn>>, rs)
        /\ step' = StepIncrement(step)
        /\ UNCHANGED <<slg, skip_start, skip_end, steps, samplerVars, latentVars, scheduleVars>>

Next == CallCFG \/ CallSLG

Spec == Init /\ [][Next]_vars

-----------------------------------------------------------------------------
(* Samplers *)

MaxN == 2
MaxSigmaExp == 2

\* noise levels: 0 and the powers of two 2^-k.  On these log(sigma) is a
\* multiple of ln 2, and t_fn, sigma_fn and expm1 below measure log-sigma
\* time in units of ln 2: the unit cancels in r = h_last / h and is undone
\* by sigma_fn and expm1, so every value of a run is an exact fraction.
SigmaVals == {Zero} \cup {Rat[1, 2 ^ k] : k \in 0 .. MaxSigmaExp}

SeqsOver(S, n) == [1 .. n -> S]

\* strictly decreasing, positive, with a final 0
ValidSchedule(s) ==
    /\ Len(s) >= 1
    /\ s[Len(s)] = Zero
    /\ \A k \in 1 .. Len(s) - 1 : Less(s[k + 1], s[k])

\* the sigma sequences a run is given: every sequence of up to MaxN steps,
\* valid or not, and every valid schedule over SigmaVals
Schedules ==
    (UNION {SeqsOver(SigmaVals, n) : n \in 1 .. MaxN + 1})
    \cup {s \in UNION {SeqsOver(SigmaVals, n) : n \in MaxN + 2 .. MaxSigmaExp + 2} :
             ValidSchedule(s)}

X0s == {One}
SamplerCondScales == {<<2, 1>>}

\* Python indexing of a sequence (a negative index counts from the end)
At(s, k) == IF k < 0 THEN s[Len(s) + k + 1] ELSE s[k + 1]

\* mutation of NumSteps: a sequence that is not strictly decreasing is
\* rejected and no step is made
NumSteps_Validated(s) ==
    IF \E k \in 1 .. Len(s) - 1 : ~Less(s[k + 1], s[k]) THEN 0 ELSE Len(s) - 1

\* mutation of NumSteps: the loop stops one step early
NumSteps_Short(s) == Len(s) - 2

\* range(len(sigmas) - 1)
NumSteps(s) == Len(s) - 1

\* mutation of to_d: the difference is not divided by sigma
to_d_Unscaled(xv, sigma, denoised) == Sub[xv, denoised]

to_d(xv, sigma, denoised) == Div[Sub[xv, denoised], sigma]

ILog2[m \in Nat] == IF m <= 1 THEN 0 ELSE 1 + ILog2[m \div 2]

\* 2^u for u an integer or a special
Exp2[u \in Num] ==
    IF u = NaN THEN NaN
    ELSE IF u[2] = 0 THEN (IF u[1] > 0 THEN Inf ELSE Zero)
    ELSE IF u[1] >= 0 THEN <<2 ^ u[1], 1>>
    ELSE <<1, 2 ^ (-u[1])>>

\* mutation of expm1: exp is taken instead of exp - 1
expm1_AsExp(u) == Exp2[u]

expm1(u) == Sub[Exp2[u], One]

sigma_fn(t) == Exp2[Neg[t]]

t_fn(sigma) ==
    IF sigma = Zero THEN Inf
    ELSE IF sigma[2] = 1 THEN <<-ILog2[sigma[1]], 1>>
    ELSE <<ILog2[sigma[2]], 1>>

\* mutation of DpmppFirstOrder: the check for a final sigma of 0 is missing
DpmppFirstOrder_NoZeroCheck(old, sigma_next) == old = None

\* line 366
DpmppFirstOrder(old, sigma_next) == old = None \/ sigma_next = Zero

\* One call of the guided-denoise callable with the sampler's extra_args.
\* The samplers take any callable as model: besides the two wrappers, "fn" is
\* a callable whose result (model_output[1]) does not depend on its input x.
Guided(xv, sigma, model_output, skip_output) ==
    IF model = "cfg"
    THEN CFGDenoiser_forward(xv, sigma, extra_args.cond_scale,
                             extra_args.kwargs, model_output)
    ELSE IF model = "slg"
    THEN SkipLayerCFGDenoiser_forward(xv, sigma, extra_args.cond_scale,
                                      extra_args.kwargs, model_output, skip_output)
    ELSE [wrapper |-> "fn", x |-> xv, timestep |-> sigma,
          cond_scale |-> extra_args.cond_scale, kwargs |-> extra_args.kwargs,
          evals |-> <<>>, pos_out |-> None, neg_out |-> None,
          skip_layer_out |-> None, entry_step |-> step, ret |-> model_output[1]]

GuidedSkipOutputs == IF model = "slg" THEN SkipOutputs ELSE {Zero}

InitSamplerWrapper ==
    /\ slg \in {Zero, <<2, 1>>}
    /\ skip_start = Zero
    /\ skip_end = One
    /\ steps = MaxN + 1
    /\ step = 0
    /\ call = [wrapper |-> "none"]

InitSampler == InitSamplerWrapper /\ IdleSampler /\ IdleLatent /\ IdleSchedule

\* entry of sample_euler / sample_dpmpp_2m
Start ==
    /\ pc = "idle"
    /\ \E sm \in {"euler", "dpmpp_2m"}, m \in {"cfg", "slg"},
          sg \in Schedules, x0 \in X0s, cs \in SamplerCondScales :
        /\ sampler' = sm
        /\ model' = m
        /\ extra_args' = [cond_scale |-> cs, kwargs |-> "none"]
        /\ sigmas' = sg
        /\ x' = x0
    /\ pc' = "stepping"
    /\ i' = 0
    /\ old_denoised' = None
    /\ UNCHANGED <<wrapperVars, call, branch, r, latentVars, scheduleVars>>

\* one iteration of the loop of sample_euler
EulerStep ==
    /\ pc = "stepping"
    /\ sampler = "euler"
    /\ i < NumSteps(sigmas)
    /\ \E rp \in RawVals, rn \in RawVals, rs \in GuidedSkipOutputs :
        LET sigma_hat == At(sigmas, i)
            c == Guided(x, sigma_hat, <<rp, rn>>, rs)
            denoised == c.ret
            d == to_d(x, sigma_hat, denoised)
            dt == Sub[At(sigmas, i + 1), sigma_hat]
        IN  /\ call' = c
            /\ x' = Add[x, Mul[d, dt]]
    /\ step' = IF model = "slg" THEN StepIncrement(step) ELSE step
    /\ i' = i + 1
    /\ UNCHANGED <<slg, skip_start, skip_end, steps, pc, sampler, model,
                   extra_args, sigmas, old_denoised, branch, r, latentVars, scheduleVars>>

\* one iteration of the loop of sample_dpmpp_2m
DpmppStep ==
    /\ pc = "stepping"
    /\ sampler = "dpmpp_2m"
    /\ i < NumSteps(sigmas)
    /\ \E rp \in RawVals, rn \in RawVals, rs \in GuidedSkipOutputs :
        LET c == Guided(x, At(sigmas, i), <<rp, rn>>, rs)
            denoised == c.ret
            t == t_fn(At(sigmas, i))
            t_next == t_fn(At(sigmas, i + 1))
            h == Sub[t_next, t]
            ratio == Div[sigma_fn(t_next), sigma_fn(t)]
            h_last == Sub[t, t_fn(At(sigmas, i - 1))]
            rr == Div[h_last, h]
            w == Div[One, Mul[<<2, 1>>, rr]]
            denoised_d == Sub[Mul[Add[One, w], denoised], Mul[w, old_denoised]]
        IN  /\ call' = c
            /\ old_denoised' = denoised
            /\ IF DpmppFirstOrder(old_denoised, At(sigmas, i + 1))
               THEN /\ x' = Sub[Mul[ratio, x], Mul[expm1(Neg[h]), denoised]]
                    /\ branch' = "first"
                    /\ r' = r
               ELSE /\ x' = Sub[Mul[ratio, x], Mul[expm1(Neg[h]), denoised_d]]
                    /\ branch' = "second"
                    /\ r' = rr
    /\ step' = IF model = "slg" THEN StepIncrement(step) ELSE step
    /\ i' = i + 1
    /\ UNCHANGED <<slg, skip_start, skip_end, steps, pc, sampler, model,
                   extra_args, sigmas, latentVars, scheduleVars>>

\* the loop is exhausted: return x
Return ==
    /\ pc = "stepping"
    /\ i >= NumSteps(sigmas)
    /\ pc' = "done"
    /\ UNCHANGED <<wrapperVars, call, sampler, model, extra_args, sigmas, i, x,
                   old_denoised, branch, r, latentVars, scheduleVars>>

NextSampler == Start \/ EulerStep \/ DpmppStep \/ Return

SpecSampler == InitSampler /\ [][NextSampler]_vars

\* a sampler is a plain loop on one thread: an iteration or the return that
\* can be taken is eventually taken
SpecSamplerFair == SpecSampler /\ WF_vars(EulerStep \/ DpmppStep \/ Return)

-----------------------------------------------------------------------------
(* The samplers on schedules that end in 0 *)

MaxTerminalN == 3

PositiveSigmas == SigmaVals \ {Zero}

\* sigma sequences of N + 1 values, 1 <= N <= MaxTerminalN: N positive values
\* in any order, then a final 0
TerminalSchedules ==
    UNION {{Append(sq, Zero) : sq \in SeqsOver(PositiveSigmas, n)} :
           n \in 1 .. MaxTerminalN}

Callables == {"cfg", "slg", "fn"}

\* entry of sample_euler / sample_dpmpp_2m with a schedule that ends in 0
StartTerminal ==
    /\ pc = "idle"
    /\ \E sm \in {"euler", "dpmpp_2m"}, m \in Callables,
          sg \in TerminalSchedules, x0 \in X0s, cs \in SamplerCondScales :
        /\ sampler' = sm
        /\ model' = m
        /\ extra_args' = [cond_scale |-> cs, kwargs |-> "none"]
        /\ sigmas' = sg
        /\ x' = x0
    /\ pc' = "stepping"
    /\ i' = 0
    /\ old_denoised' = None
    /\ UNCHANGED <<wrapperVars, call, branch, r, latentVars, scheduleVars>>

NextTerminal == StartTerminal \/ EulerStep \/ DpmppStep \/ Return

SpecTerminal == InitSampler /\ [][NextTerminal]_vars

-----------------------------------------------------------------------------
(* SD3LatentFormat *)

MaxLatent == 20

LatentVals == {Rat[k, 4] : k \in -MaxLatent .. MaxLatent}

scale_factor == Rat[15305, 10000]
shift_factor == Rat[609, 10000]

process_in(l) == Mul[Sub[l, shift_factor], scale_factor]

\* mutation of process_out: the shift is subtracted again instead of added
process_out_ShiftSign(l) == Sub[Div[l, scale_factor], shift_factor]

process_out(l) == Add[Div[l, scale_factor], shift_factor]

InitLatent ==
    /\ InitSamplerWrapper
    /\ IdleSampler
    /\ raw_latent \in LatentVals
    /\ latent = raw_latent
    /\ stage = "raw"
    /\ IdleSchedule

ProcessIn ==
    /\ stage = "raw"
    /\ latent' = process_in(latent)
    /\ stage' = "in"
    /\ UNCHANGED <<wrapperVars, call, samplerVars, raw_latent, scheduleVars>>

ProcessOut ==
    /\ stage = "in"
    /\ latent' = process_out(latent)
    /\ stage' = "out"
    /\ UNCHANGED <<wrapperVars, call, samplerVars, raw_latent, scheduleVars>>

NextLatent == ProcessIn \/ ProcessOut

SpecLatent == InitLatent /\ [][NextLatent]_vars

-----------------------------------------------------------------------------
(* ModelSamplingDiscreteFlow: timestep and sigma *)

MaxGrid == 10

\* the noise levels k / MaxGrid of (0, 1]
ScheduleSigmas == {Rat[k, MaxGrid] : k \in 1 .. MaxGrid}
Shifts == {One, <<1, 2>>, <<2, 1>>, <<3, 1>>}

\* mutation of ModelSampling_sigma: the timestep is not divided by 1000
ModelSampling_sigma_Unscaled(sh, ts) ==
    IF sh = One THEN ts
    ELSE Div[Mul[sh, ts], Add[One, Mul[Sub[sh, One], ts]]]

\* ModelSamplingDiscreteFlow.sigma with self.shift = sh
ModelSampling_sigma(sh, ts) ==
    LET t == Div[ts, <<1000, 1>>]
    IN  IF sh = One THEN t
        ELSE Div[Mul[sh, t], Add[One, Mul[Sub[sh, One], t]]]

InitSchedule ==
    /\ InitSamplerWrapper
    /\ IdleSampler
    /\ IdleLatent
    /\ shift \in Shifts
    /\ \E s \in ScheduleSigmas : sched = [stage |-> "sigma", sigma |-> s]

\* timestep(sigma)
ToTimestep ==
    /\ sched.stage = "sigma"
    /\ sched' = [stage |-> "timestep", sigma |-> sched.sigma,
                 timestep |-> timestep(sched.sigma)]
    /\ UNCHANGED <<wrapperVars, call, samplerVars, latentVars, shift>>

\* sigma(timestep)
ToSigma ==
    /\ sched.stage = "timestep"
    /\ sched' = [stage |-> "back", sigma |-> sched.sigma,
                 timestep |-> sched.timestep,
                 out |-> ModelSampling_sigma(shift, sched.timestep)]
    /\ UNCHANGED <<wrapperVars, call, samplerVars, latentVars, shift>>

NextSchedule == ToTimestep \/ ToSigma

SpecSchedule == InitSchedule /\ [][NextSchedule]_vars

-----------------------------------------------------------------------------
(* Properties of the guidance wrappers, checked under Spec *)

\* the classifier-free-guidance combination of the two halves of the batched
\* evaluation of the most recent call, with the caller's cond_scale
CFGValue == Add[call.neg_out, Mul[Sub[call.pos_out, call.neg_out], call.cond_scale]]

\* C1: CFGDenoiser.forward returns neg_out + (pos_out - neg_out) * cond_scale
\* for the cond_scale the caller passed; with cond_scale = 1 it returns pos_out.
C1_PlainCFGUsesCondScale ==
    call.wrapper = "cfg" =>
        /\ call.ret = CFGValue
        /\ call.cond_scale = One => call.ret = call.pos_out

\* C2: with scale = 0, SkipLayerCFGDenoiser.forward returns what
\* CFGDenoiser.forward returns for the same arguments and the same batched
\* evaluation, and evaluates the denoiser exactly once.
C2_ZeroScaleEqualsPlainCFG ==
    (call.wrapper = "slg" /\ slg = Zero) =>
        /\ call.ret = CFGScaled(call.pos_out, call.neg_out, call.cond_scale)
        /\ Len(call.evals) = 1

\* C3: the skip-layer evaluation (cond bundle only, configured layers
\* skipped) runs iff scale > 0 and start*steps < step < end*steps, both
\* strict, for the counter value on entry; when it runs the result is the
\* CFG value plus (pos_out - skip_layer_out) * scale, otherwise the CFG value.
C3_SkipWindow ==
    call.wrapper = "slg" =>
        LET fired == Len(call.evals) = 2
            st == call.entry_step
            inWindow == /\ slg[1] > 0
                        /\ skip_start[1] * steps < st * skip_start[2]
                        /\ st * skip_end[2] < skip_end[1] * steps
        IN  /\ Len(call.evals) \in {1, 2}
            /\ call.evals[1].c_crossattn = <<"cond", "uncond">>
            /\ fired <=> inWindow
            /\ fired => /\ call.evals[2].c_crossattn = <<"cond">>
                        /\ call.evals[2].skip_layers = "self.skip_layers"
                        /\ call.skip_layer_out = call.evals[2].out[1]
                        /\ call.ret = Add[CFGValue,
                                          Mul[Sub[call.pos_out, call.skip_layer_out], slg]]
            /\ ~fired => call.ret = CFGValue

\* a call in which the skip-layer evaluation ran and changed the result
C3_Witness ==
    /\ call.wrapper = "slg"
    /\ Len(call.evals) = 2
    /\ call.ret # CFGValue

\* C4: with skip_start = skip_end the skip-layer evaluation never runs, for
\* any scale, total step count and step, and the result is the CFG value.
C4_EmptyWindow ==
    (call.wrapper = "slg" /\ skip_start = skip_end) =>
        /\ Len(call.evals) = 1
        /\ call.skip_layer_out = None
        /\ call.ret = CFGValue

\* a call with positive scale whose step lies on the single point
\* skip_start*steps = skip_end*steps of the empty window
C4_Witness ==
    /\ call.wrapper = "slg"
    /\ skip_start = skip_end
    /\ slg[1] > 0
    /\ call.entry_step > 0
    /\ call.entry_step * skip_start[2] = skip_start[1] * steps

\* a transition made by a call of SkipLayerCFGDenoiser.forward
SLGCalled == call'.wrapper = "slg" /\ call' # call

\* C5: the step counter is 0 after construction, every call of
\* SkipLayerCFGDenoiser.forward adds exactly one to it whether or not the
\* skip branch ran, and nothing else changes it (so it equals the number of
\* calls made on the instance).
C5_StepCounter ==
    /\ step = 0
    /\ [][IF SLGCalled THEN step' = step + 1 /\ call'.entry_step = step
                       ELSE step' = step]_vars

\* the counter has counted a call in which the skip branch ran and a later
\* one in which it did not
C5_Witness ==
    /\ call.wrapper = "slg"
    /\ step = call.entry_step + 1
    /\ step = MaxCalls
    /\ Len(call.evals) = 1
    /\ SkipBranch(slg, 1, skip_start, skip_end, steps)

\* C12: the skip-layer evaluation is called with x, timestep, the cond
\* bundle and skip_layers only: keyword arguments such as controlnet_cond,
\* which the batched evaluation receives, are not forwarded to it, so it runs
\* without the control pathway.
C12_SkipEvalDropsKwargs ==
    call.wrapper = "slg" =>
        /\ call.evals[1].controlnet_cond = call.kwargs
        /\ call.evals[1].controlnet_hidden_states =
              (IF call.kwargs = "controlnet_cond" THEN "control_model" ELSE "none")
        /\ Len(call.evals) = 2 =>
              /\ call.evals[2].x = <<call.x>>
              /\ call.evals[2].timestep = <<Mul[call.timestep, <<1000, 1>>]>>
              /\ call.evals[2].c_crossattn = <<"cond">>
              /\ call.evals[2].skip_layers = "self.skip_layers"
              /\ call.evals[2].controlnet_cond = "none"
              /\ call.evals[2].controlnet_hidden_states = "none"

\* a call given controlnet_cond whose batched evaluation used the control
\* pathway and whose skip-layer evaluation ran
C12_Witness ==
    /\ call.wrapper = "slg"
    /\ call.kwargs = "controlnet_cond"
    /\ Len(call.evals) = 2
    /\ call.evals[1].controlnet_hidden_states = "control_model"
    /\ call.evals[2].controlnet_hidden_states = "none"

-----------------------------------------------------------------------------
(* Properties of the samplers, checked under SpecSampler unless noted *)

\* a transition that is one iteration of the sampler's loop
SamplerStepTaken == pc = "stepping" /\ i' = i + 1

\* C6: a sampler given N+1 sigmas calls the guided-denoise callable once per
\* step, in order i = 0..N-1 with (x, sigma[i]), makes no other call, and
\* terminates returning x after step N-1; a fresh skip-layer wrapper used as
\* the callable sees its counter equal to i at the i-th call.
\* (checked under SpecSamplerFair)
C6_OneCallPerStep ==
    /\ [][
           /\ (pc # "idle" /\ (i' # i \/ call' # call \/ step' # step)) =>
               /\ SamplerStepTaken
               /\ i < Len(sigmas) - 1
               /\ call'.wrapper = model
               /\ call'.x = x
               /\ call'.timestep = sigmas[i + 1]
               /\ model = "slg" => (call'.entry_step = i /\ step' = i + 1)
               /\ model = "cfg" => step' = step
           /\ (pc' = "done" /\ pc # "done") =>
               /\ i = Len(sigmas) - 1
               /\ x' = x
               /\ i' = i
               /\ call' = call]_vars
    /\ [](pc = "done" => i = Len(sigmas) - 1)
    /\ (pc = "stepping") ~> (pc = "done")

\* a finished three-step run on a fresh skip-layer wrapper whose last call
\* made the extra evaluation
C6_Witness ==
    /\ pc = "done"
    /\ model = "slg"
    /\ Len(sigmas) = 4
    /\ i = 3
    /\ step = 3
    /\ call.entry_step = 2
    /\ Len(call.evals) = 2

\* log2 of a positive power of two
Lg(s) == IF s[2] = 1 THEN ILog2[s[1]] ELSE -ILog2[s[2]]

\* C7: sample_dpmpp_2m takes the first-order update at step i iff i = 0 or
\* sigma[i+1] = 0; otherwise it takes the second-order update with the
\* denoised estimate of step i-1 and r = h_last / h,
\* h_last = log(sigma[i-1]) - log(sigma[i]), h = log(sigma[i]) - log(sigma[i+1]).
C7_DpmppBranches ==
    [][(sampler = "dpmpp_2m" /\ SamplerStepTaken) =>
          LET s_i == sigmas[i + 1]
              s_next == sigmas[i + 2]
              den == call'.ret
              ratio == Div[s_next, s_i]
              w == Div[One, Mul[<<2, 1>>, r']]
              den_d == Sub[Mul[Add[One, w], den], Mul[w, call.ret]]
          IN  /\ branch' \in {"first", "second"}
              /\ branch' = "first" <=> (i = 0 \/ s_next = Zero)
              /\ old_denoised' = den
              /\ branch' = "first" =>
                    x' = Sub[Mul[ratio, x], Mul[Sub[ratio, One], den]]
              /\ branch' = "second" =>
                    /\ i >= 1
                    /\ s_next # Zero
                    /\ old_denoised = call.ret
                    /\ (s_i # Zero /\ sigmas[i] # Zero) =>
                          /\ r' = Rat[Lg(sigmas[i]) - Lg(s_i), Lg(s_i) - Lg(s_next)]
                          /\ x' = Sub[Mul[ratio, x], Mul[Sub[ratio, One], den_d]]]_vars

\* a finished run on a valid three-step schedule: step 1 took the
\* second-order update (r is set) and the final step, whose next sigma is 0,
\* took the first-order update although a previous estimate existed
C7_Witness ==
    /\ pc = "done"
    /\ sampler = "dpmpp_2m"
    /\ ValidSchedule(sigmas)
    /\ Len(sigmas) = 4
    /\ branch = "first"
    /\ r = One
    /\ old_denoised # None

\* C8: each step of sample_euler calls guided_denoise(x, sigma[i]) and sets
\* x to x + ((x - denoised) / sigma[i]) * (sigma[i+1] - sigma[i]); for
\* sigma = [1, 0], x = 1 and a denoised value of 0 the returned x is 0.
C8_EulerUpdate ==
    /\ [][(sampler = "euler" /\ SamplerStepTaken) =>
             /\ call'.x = x
             /\ call'.timestep = sigmas[i + 1]
             /\ x' = Add[x, Mul[Div[Sub[x, call'.ret], sigmas[i + 1]],
                                Sub[sigmas[i + 2], sigmas[i + 1]]]]]_vars
    /\ []((/\ pc = "done"
           /\ sampler = "euler"
           /\ sigmas = <<One, Zero>>
           /\ call.x = One
           /\ call.ret = Zero) => x = Zero)

\* the run sigma = [1, 0], x = 1, denoised = 0 has returned 0
C8_Witness ==
    /\ pc = "done"
    /\ sampler = "euler"
    /\ sigmas = <<One, Zero>>
    /\ call.x = One
    /\ call.ret = Zero
    /\ x = Zero

\* some sigma is not smaller than its predecessor
NotStrictlyDecreasing(s) ==
    \E k \in 1 .. Len(s) - 1 : ~Less(s[k + 1], s[k])

\* C9: a run given a sigma sequence that is not strictly decreasing fails at
\* sampler entry: it makes no guided-denoise call and produces no result.
C9_InvalidScheduleRejected ==
    (pc # "idle" /\ NotStrictlyDecreasing(sigmas)) =>
        /\ call.wrapper = "none"
        /\ pc # "done"

\* C9 (amended): the samplers do not validate the sigma sequence; given one
\* that is not strictly decreasing the run is never blocked, makes its
\* guided-denoise call at every step i with sigma[i], and returns a value
\* after the last step.
C9_NoScheduleValidation ==
    (pc # "idle" /\ NotStrictlyDecreasing(sigmas)) =>
        /\ pc = "stepping" => ENABLED (EulerStep \/ DpmppStep \/ Return)
        /\ i >= 1 => (call.wrapper = model /\ call.timestep = sigmas[i])
        /\ pc = "done" => (i = Len(sigmas) - 1 /\ x # None /\ call.wrapper = model)

\* a run on the non-monotonic sequence [1/2, 1, 0] has returned
C9_Witness ==
    /\ pc = "done"
    /\ sigmas = <<(<<1, 2>>), One, Zero>>
    /\ i = 2
    /\ call.wrapper = model

-----------------------------------------------------------------------------
(* Properties of the latent format, checked under SpecLatent *)

\* C10: process_in(x) = (x - shift_factor) * scale_factor with the constants
\* 1.5305 and 0.0609, and process_out(process_in(x)) = x for every latent x.
C10_LatentRoundTrip ==
    /\ stage = "in" =>
          latent = Rat[(10000 * raw_latent[1] - 609 * raw_latent[2]) * 3061,
                       raw_latent[2] * 20000000]
    /\ stage = "out" => latent = raw_latent

\* a non-zero latent has gone through process_in and process_out
C10_Witness ==
    /\ stage = "out"
    /\ raw_latent = <<-3, 4>>
    /\ latent = raw_latent

-----------------------------------------------------------------------------
(* Properties of the noise schedule, checked under SpecSchedule *)

\* C11: timestep(s) = 1000 * s for every shift; with shift = 1,
\* sigma(t) = t / 1000, so sigma(timestep(s)) = s for s in (0, 1]; with
\* shift # 1, sigma(t) = shift * u / (1 + (shift - 1) * u), u = t / 1000.
C11_ScheduleRoundTrip ==
    /\ sched.stage \in {"timestep", "back"} =>
          sched.timestep = Rat[1000 * sched.sigma[1], sched.sigma[2]]
    /\ sched.stage = "back" =>
          /\ shift = One => sched.out = sched.sigma
          /\ sched.out = Rat[shift[1] * sched.sigma[1],
                             shift[2] * sched.sigma[2]
                                 + (shift[1] - shift[2]) * sched.sigma[1]]

\* a noise level below 1 has gone through timestep() and sigma() under the
\* identity shift
C11_Witness ==
    /\ sched.stage = "back"
    /\ shift = One
    /\ Less(sched.sigma, One)
    /\ sched.timestep = Mul[sched.sigma, <<1000, 1>>]
    /\ sched.out = sched.sigma

-----------------------------------------------------------------------------
(* Properties of the samplers on schedules that end in 0 *)

\* the schedule has N >= 1 steps, a last value of 0 and positive other values
TerminalSchedule ==
    /\ Len(sigmas) >= 2
    /\ sigmas[Len(sigmas)] = Zero
    /\ \A k \in 1 .. Len(sigmas) - 1 : Greater(sigmas[k], Zero)

\* no two consecutive values among the first N - 1 sigmas are equal: h_last is
\* not 0 in any second-order step of sample_dpmpp_2m
DistinctBeforeLast == \A k \in 1 .. Len(sigmas) - 3 : sigmas[k] # sigmas[k + 1]

Finite(v) == v # None /\ v[2] # 0

\* C13 as stated: on a schedule of N >= 1 steps whose last value is 0 and
\* whose other values are positive, both samplers return exactly the value
\* the guided-denoise callable returned on the last step.
C13_ReturnsLastDenoised ==
    (pc = "done" /\ TerminalSchedule) => x = call.ret

\* C13 as amended: sample_euler returns the value the callable returned on
\* the last step on every such schedule, and sample_dpmpp_2m does when no two
\* consecutive values among the first N - 1 sigmas are equal; the returned
\* value is then finite.
C13_ReturnsLastDenoisedDistinct ==
    (/\ pc = "done"
     /\ TerminalSchedule
     /\ sampler = "dpmpp_2m" => DistinctBeforeLast)
    => (x = call.ret /\ Finite(x))

\* a finished run of sample_dpmpp_2m of three steps, the second of them
\* second-order on a rising sigma, that returned the last value of the callable
C13_Witness ==
    /\ pc = "done"
    /\ sampler = "dpmpp_2m"
    /\ model = "fn"
    /\ TerminalSchedule
    /\ Len(sigmas) = 4
    /\ Less(sigmas[1], sigmas[2])
    /\ r # None
    /\ call.ret = One
    /\ x = One

====
